---- MODULE Spec2Model ----
(***************************************************************************)
(* Consent-gated encrypted case store of medcore-medtriage:                *)
(* storage/db.py (Relational Store), storage/crypto.py (Crypto Module),    *)
(* storage/case_manager.py (Case Service), storage/export.py (Export       *)
(* Service).                                                               *)
(*                                                                         *)
(* db is the committed content of the SQLite file.  conn is what the       *)
(* connection of the call in flight sees: db plus the statements of its    *)
(* open transaction.  Leaving a "with conn:" block normally commits        *)
(* (db' = conn'), leaving it by an exception or losing the process rolls   *)
(* back (conn' = db).  Columns no modelled decision reads (display_name,   *)
(* triage_level, specialty_category, confidence_level, and the created_at  *)
(* and timestamp columns, which are written once and never compared) are   *)
(* left out.  auditCap is the length the audit log may grow to in the      *)
(* specification in force.  What a call returns or raises is a function of *)
(* the state it starts in and of its arguments: the operators named after  *)
(* the functions, and the *_outcome operators; a call that returns or      *)
(* raises without writing is no step.  procKey is the key memoized by      *)
(* _get_fernet in the running process, envKey the APP_DATA_KEY setting.    *)
(* given remembers what the callers passed in: the document of each case   *)
(* create_case_for_patient returned, the password of each user             *)
(* register_user returned.  No action reads it.                            *)
(***************************************************************************)
EXTENDS Integers, Sequences, FiniteSets, TLC

VARIABLES db, conn, call, procKey, envKey, auditCap, given

vars == <<db, conn, call, procKey, envKey, auditCap, given>>

-----------------------------------------------------------------------------
(* Bounds of the model *)

MaxUsers == 2
MaxCases == 1
MaxAudit == 4
MaxAuditAuth == 4
MaxAuditExport == 6
MaxEntries == 1
MaxAuditRestart == 5
MaxAuditCase == 4
MaxAuditStore == 5
MaxAuditRace == 4

-----------------------------------------------------------------------------
(* Input alphabets *)

\* usernames as typed: sequences of characters, with case and blanks
RawUsernames == { <<"a">>, <<" ", "A">>, <<"B", " ">> }

\* passwords chosen at registration, and passwords tried at login
Passwords == {"pw1"}

LoginPasswords == {"pw1", "pw2"}

Salts == {"s1"}

RoleInputs == {"patient", "professional", "admin"}

ScopeInputs == {"read", "full", "write"}

\* the scopes passed where the scope of a share makes no difference
ScopeInputsRead == {"read", "write"}

ExportKinds == {"json", "pdf"}

\* the documents CasePayload.model_dump(mode="json") hands to create_case
Docs ==
    { { [k |-> [t |-> "str", v |-> <<"summary">>],
         v |-> [t |-> "str", v |-> <<"Mild cough">>]],
        [k |-> [t |-> "str", v |-> <<"triage_level">>],
         v |-> [t |-> "str", v |-> <<"routine">>]] },
      { [k |-> [t |-> "str", v |-> <<"summary">>],
         v |-> [t |-> "str", v |-> <<"Chest pain">>]],
        [k |-> [t |-> "str", v |-> <<"triage_level">>],
         v |-> [t |-> "str", v |-> <<"urgent">>]] } }

\* the keys and values of the dicts handed to encrypt_json directly
JsonInputKeys == { [t |-> "str", v |-> <<"a">>], [t |-> "int", v |-> <<"1">>] }

JsonInputValues ==
    { [t |-> "str", v |-> <<"x">>],
      [t |-> "int", v |-> <<"7">>],
      [t |-> "list", v |-> <<[t |-> "int", v |-> <<"7">>]>>],
      [t |-> "tuple", v |-> <<[t |-> "int", v |-> <<"7">>]>>],
      [t |-> "datetime", v |-> <<"2024-01-01 00:00:00">>] }

\* dicts of at most MaxEntries entries: one value for a key
JsonInputs ==
    {d \in SUBSET {[k |-> key, v |-> value] :
                       key \in JsonInputKeys, value \in JsonInputValues} :
        /\ Cardinality(d) <= MaxEntries
        /\ \A e1, e2 \in d : e1.k = e2.k => e1 = e2}

NoKey == "nokey"

Unset == "unset"

ConfiguredKey == "k_env"

\* keys of other processes and deployments
ForeignKeys == {"k_env", "k_gen1", "k_gen2"}

\* the keys Fernet.generate_key() returns, in the order of their use
GeneratedKeys == <<"k_gen1", "k_gen2", "k_gen3", "k_gen4">>

ValidRoles == {"patient", "professional"}

\* every scope passed taken as valid
AnyScope == {"read", "comment", "full", "write"}

ValidScopes == {"read", "comment", "full"}

NoCase == 0

-----------------------------------------------------------------------------
(* Pure helpers *)

IsSpace(ch) == ch = " "

LowerChar(ch) ==
    CASE ch = "A" -> "a"
      [] ch = "B" -> "b"
      [] ch = "C" -> "c"
      [] OTHER -> ch

RECURSIVE LStrip(_)
LStrip(s) ==
    IF s = <<>> THEN <<>>
    ELSE IF IsSpace(Head(s)) THEN LStrip(Tail(s)) ELSE s

RECURSIVE RStrip(_)
RStrip(s) ==
    IF s = <<>> THEN <<>>
    ELSE IF IsSpace(s[Len(s)]) THEN RStrip(SubSeq(s, 1, Len(s) - 1)) ELSE s

Strip(s) == RStrip(LStrip(s))

Lower(s) == [i \in 1..Len(s) |-> LowerChar(s[i])]

\* SHA-256 hex digest, taken to be collision free
Sha256(s) == <<"sha256", s>>

\* the digest of the username as typed
raw_lookup_hash(username) == Sha256(username)

username_to_lookup_hash(username) == Sha256(Lower(Strip(username)))

\* PBKDF2-HMAC-SHA256 derived key, taken to be collision free
hash_password(password, salt) == <<"pbkdf2", password, salt>>

PasswordBlob(password, salt) ==
    [salt |-> salt, hash |-> hash_password(password, salt)]

\* a comparison that accepts every password
verify_any_password(password, blob) == TRUE

verify_password(password, blob) ==
    hash_password(password, blob.salt) = blob.hash

\* Python values are [t |-> type, v |-> <<...>>]: a str carries its text, an
\* int its decimal digits, a datetime what str() makes of it, a list or a
\* tuple its elements.  A dict is the set of its [k |-> key, v |-> value].
PyStr(s) == [t |-> "str", v |-> <<s>>]

PyInt(digits) == [t |-> "int", v |-> <<digits>>]

PyDatetime(text) == [t |-> "datetime", v |-> <<text>>]

PyList(elems) == [t |-> "list", v |-> elems]

PyTuple(elems) == [t |-> "tuple", v |-> elems]

Entry(key, value) == [k |-> key, v |-> value]

\* JSON text, parsed: [j |-> kind, v |-> ...]
JString(s) == [j |-> "string", v |-> <<s>>]

JNumber(digits) == [j |-> "number", v |-> <<digits>>]

JArray(elems) == [j |-> "array", v |-> elems]

\* json.dumps(..., default=str) of a value: a tuple is written as an array,
\* what json cannot serialise is written as the string str() makes of it
RECURSIVE ToJson(_)
ToJson(x) ==
    CASE x.t = "str" -> JString(x.v[1])
      [] x.t = "int" -> JNumber(x.v[1])
      [] x.t \in {"list", "tuple"} ->
            JArray([i \in DOMAIN x.v |-> ToJson(x.v[i])])
      [] OTHER -> JString(x.v[1])

\* json.dumps of a dict key: a str as it is, an int as its digits
JsonKey(key) == key.v[1]

JsonDumps(doc) ==
    [j |-> "object",
     v |-> {[k |-> JsonKey(e.k), v |-> ToJson(e.v)] : e \in doc}]

\* json.loads of a value: every array is a list, every key a str
RECURSIVE FromJson(_)
FromJson(y) ==
    CASE y.j = "string" -> PyStr(y.v[1])
      [] y.j = "number" -> PyInt(y.v[1])
      [] OTHER -> PyList([i \in DOMAIN y.v |-> FromJson(y.v[i])])

JsonLoads(text) == {Entry(PyStr(m.k), FromJson(m.v)) : m \in text.v}

\* a token made of the empty document whatever the data
encrypt_json_empty(doc, key) ==
    [key |-> key, ct |-> JsonDumps({}), intact |-> TRUE]

\* a Fernet token: the JSON text encrypted under key, with its HMAC intact
encrypt_json(doc, key) ==
    [key |-> key, ct |-> JsonDumps(doc), intact |-> TRUE]

\* a decryption that accepts every token
DecryptAnyToken(token, key) == TRUE

\* Fernet.decrypt: the HMAC verifies under the key of the process
DecryptOk(token, key) == token.intact /\ token.key = key

decrypt_json(token, key) == JsonLoads(token.ct)

\* decrypt_json: the dict it returns, or the InvalidToken it raises
decrypt_json_result(token, key) ==
    IF DecryptOk(token, key)
    THEN [kind |-> "ok", val |-> decrypt_json(token, key)]
    ELSE [kind |-> "InvalidToken", val |-> "InvalidToken"]

\* Fernet.generate_key(): 32 random bytes, taken never to repeat a key that
\* a stored token was made with
generate_key(d) ==
    LET used == {p.encrypted_blob.key : p \in d.payloads}
        free == {i \in DOMAIN GeneratedKeys : GeneratedKeys[i] \notin used}
    IN  {GeneratedKeys[i] : i \in {j \in free : \A m \in free : j <= m}}

\* _get_fernet without its lru_cache: the key looked up anew at every call
get_fernet_uncached(memo, env, d) ==
    IF env # Unset THEN {env} ELSE generate_key(d)

\* the keys _get_fernet() may return: the memoized one, else the configured
\* one, else a freshly generated one
get_fernet(memo, env, d) ==
    IF memo # NoKey THEN {memo}
    ELSE IF env # Unset THEN {env}
    ELSE generate_key(d)

-----------------------------------------------------------------------------
(* Tables and statements *)

EmptyDb ==
    [ users    |-> <<>>,
      creds    |-> {},
      cases    |-> <<>>,
      payloads |-> {},
      shares   |-> <<>>,
      audit    |-> <<>> ]

UserIds(d) == 1..Len(d.users)

CaseIds(d) == 1..Len(d.cases)

UserRecord(d, id) ==
    [id |-> id, role |-> d.users[id].role,
     identifier_hash |-> d.users[id].identifier_hash]

\* SELECT * FROM users WHERE identifier_hash = ?
get_user_by_identifier(d, h) ==
    LET hit == {i \in UserIds(d) : d.users[i].identifier_hash = h}
    IN  IF hit = {} THEN 0 ELSE CHOOSE i \in hit : TRUE

InsertUser(d, role, h) ==
    [d EXCEPT !.users = Append(@, [role |-> role, identifier_hash |-> h])]

InsertCredentials(d, uid, blob) ==
    [d EXCEPT !.creds = @ \cup {[user_id |-> uid, password_blob |-> blob]}]

InsertCase(d, patient) ==
    [d EXCEPT !.cases =
        Append(@, [patient_user_id |-> patient, status |-> "open"])]

InsertPayload(d, cid, token) ==
    [d EXCEPT !.payloads = @ \cup {[case_id |-> cid, encrypted_blob |-> token]}]

\* the share row written with patient and provider in each other's place
InsertShareSwapped(d, cid, patient, provider, scope) ==
    [d EXCEPT !.shares =
        Append(@, [case_id |-> cid, patient_user_id |-> provider,
                   provider_user_id |-> patient, consent_scope |-> scope])]

InsertShare(d, cid, patient, provider, scope) ==
    [d EXCEPT !.shares =
        Append(@, [case_id |-> cid, patient_user_id |-> patient,
                   provider_user_id |-> provider, consent_scope |-> scope])]

\* a share that leaves the status of the case alone
PromoteStatusNever(d, cid) == d

\* UPDATE cases SET status = 'shared' WHERE id = ?
PromoteStatusAlways(d, cid) ==
    IF cid \in CaseIds(d)
    THEN [d EXCEPT !.cases[cid].status = "shared"]
    ELSE d

\* UPDATE cases SET status = 'shared' WHERE id = ? AND status = 'open'
PromoteStatus(d, cid) ==
    IF cid \in CaseIds(d) /\ d.cases[cid].status = "open"
    THEN [d EXCEPT !.cases[cid].status = "shared"]
    ELSE d

\* the new row put in front of the log
prepend_audit(d, uid, action, cid) ==
    [d EXCEPT !.audit =
        <<[user_id |-> uid, action |-> action, case_id |-> cid]>> \o @]

\* INSERT INTO audit_log (user_id, action, case_id, timestamp)
append_audit(d, uid, action, cid) ==
    [d EXCEPT !.audit =
        Append(@, [user_id |-> uid, action |-> action, case_id |-> cid])]

\* constraint checks of the schema
UserHashTaken(d, h) == \E i \in UserIds(d) : d.users[i].identifier_hash = h

\* shares declared without its UNIQUE constraint
ShareNoUniqueConstraint(d, cid, provider) == FALSE

\* UNIQUE(case_id, provider_user_id) of shares would be violated
ShareUniqueViolation(d, cid, provider) ==
    \E i \in 1..Len(d.shares) :
        d.shares[i].case_id = cid /\ d.shares[i].provider_user_id = provider

\* the cursor tested instead of the fetched row: never None
ShareRowForCursor(d, cid, uid) == TRUE

\* a lookup that counts only the rows of scope 'full'
ShareRowForFullScope(d, cid, uid) ==
    \E i \in 1..Len(d.shares) :
        /\ d.shares[i].case_id = cid
        /\ d.shares[i].provider_user_id = uid
        /\ d.shares[i].consent_scope = "full"

\* SELECT 1 FROM shares WHERE case_id = ? AND provider_user_id = ?
\* ... fetchone() is not None
ShareRowFor(d, cid, uid) ==
    \E i \in 1..Len(d.shares) :
        d.shares[i].case_id = cid /\ d.shares[i].provider_user_id = uid

AuditFkOk(d, uid, cid) ==
    uid \in UserIds(d) /\ (cid = NoCase \/ cid \in CaseIds(d))

\* every statement committed as it is executed
Autocommit(committed, working) == working

\* what is durable while a transaction is still open
Durable(committed, working) == committed

-----------------------------------------------------------------------------
(* Calls and their outcomes *)

Idle ==
    [op |-> "idle", pc |-> "idle", uid |-> 0, cid |-> 0, pid |-> 0,
     x |-> "", y |-> ""]

None == "None"

Out(kind, val) == [kind |-> kind, val |-> val]

\* every record a caller can present as requester
Requesters(d) == [id : 1..(Len(d.users) + 1), role : ValidRoles]

\* the records callers do present: those of the users, and one of nobody
Callers(d) ==
    {[id |-> u, role |-> d.users[u].role] : u \in UserIds(d)}
        \cup {[id |-> Len(d.users) + 1, role |-> "professional"]}

\* register_user before it writes: the error raised, or "insert"
register_outcome(d, username, role) ==
    LET h == username_to_lookup_hash(username) IN
    IF role \notin ValidRoles
    THEN Out("ValueError", "invalid role")
    ELSE IF get_user_by_identifier(d, h) # 0
    THEN Out("ValueError", "already registered")
    ELSE IF UserHashTaken(d, h)
    THEN Out("IntegrityError", "users.identifier_hash")
    ELSE Out("insert", None)

\* authenticate_user: what it returns and the database it leaves committed
authenticate_user(d, username, password) ==
    LET uid == get_user_by_identifier(d, username_to_lookup_hash(username))
        cred == {c \in d.creds : c.user_id = uid}
    IN  IF uid = 0
        THEN [kind |-> "none", val |-> None, d |-> d]
        ELSE IF cred = {} \/
                ~verify_password(password,
                                 (CHOOSE c \in cred : TRUE).password_blob)
        THEN [kind |-> "none", val |-> None,
              d |-> append_audit(d, uid, "login_failure", NoCase)]
        ELSE [kind |-> "ok", val |-> UserRecord(d, uid),
              d |-> append_audit(d, uid, "login_success", NoCase)]

\* db.create_case before it writes
create_case_outcome(d, patient) ==
    IF patient \notin UserIds(d)
    THEN Out("IntegrityError", "cases.patient_user_id")
    ELSE Out("insert", None)

\* the denial returning before it logs
deny_access_unlogged(d, cid, req) == [kind |-> "none", val |-> None, d |-> d]

\* get_case_payload, the denial: the audit row, committed by the return
\* out of the with block, and None
deny_access(d, cid, req) ==
    IF AuditFkOk(d, req.id, cid)
    THEN [kind |-> "none", val |-> None,
          d |-> append_audit(d, req.id, "unauthorized_payload_access", cid)]
    ELSE [kind |-> "IntegrityError", val |-> "audit_log.user_id", d |-> d]

\* a get_case_payload that looks up the share row whatever the role is
get_case_payload_any_role(d, cid, req, key) ==
    IF cid \notin CaseIds(d)
    THEN [kind |-> "none", val |-> None, d |-> d]
    ELSE
      LET is_owner == d.cases[cid].patient_user_id = req.id
          is_consented_provider ==
              ShareRowFor(d, cid, req.id)
          rows == {p \in d.payloads : p.case_id = cid}
      IN  IF ~(is_owner \/ is_consented_provider)
          THEN deny_access(d, cid, req)
          ELSE IF rows = {}
          THEN [kind |-> "none", val |-> None, d |-> d]
          ELSE IF ~AuditFkOk(d, req.id, cid)
          THEN [kind |-> "IntegrityError", val |-> "audit_log.user_id",
                d |-> d]
          ELSE
            LET token == (CHOOSE p \in rows : TRUE).encrypted_blob
                d2 == append_audit(d, req.id, "payload_read", cid)
            IN  IF DecryptOk(token, key)
                THEN [kind |-> "ok", val |-> decrypt_json(token, key),
                      d |-> d2]
                ELSE [kind |-> "InvalidToken", val |-> "InvalidToken",
                      d |-> d2]

\* db.get_case_payload: the outcome and the database it leaves committed
get_case_payload(d, cid, req, key) ==
    IF cid \notin CaseIds(d)
    THEN [kind |-> "none", val |-> None, d |-> d]
    ELSE
      LET is_owner == d.cases[cid].patient_user_id = req.id
          is_consented_provider ==
              req.role = "professional" /\ ShareRowFor(d, cid, req.id)
          rows == {p \in d.payloads : p.case_id = cid}
      IN  IF ~(is_owner \/ is_consented_provider)
          THEN deny_access(d, cid, req)
          ELSE IF rows = {}
          THEN [kind |-> "none", val |-> None, d |-> d]
          ELSE IF ~AuditFkOk(d, req.id, cid)
          THEN [kind |-> "IntegrityError", val |-> "audit_log.user_id",
                d |-> d]
          ELSE
            LET token == (CHOOSE p \in rows : TRUE).encrypted_blob
                d2 == append_audit(d, req.id, "payload_read", cid)
            IN  IF DecryptOk(token, key)
                THEN [kind |-> "ok", val |-> decrypt_json(token, key),
                      d |-> d2]
                ELSE [kind |-> "InvalidToken", val |-> "InvalidToken",
                      d |-> d2]

\* case_manager.read_case_payload: None passes through, a document is
\* wrapped in CasePayload
read_case_payload(d, cid, req, key) == get_case_payload(d, cid, req, key)

\* a share_case that writes over the share row of the pair, if there is
\* one, and logs the share again
share_case_upsert(d, cid, patient_user_id, provider_user_id, consent_scope) ==
    IF consent_scope \notin ValidScopes
    THEN [kind |-> "ValueError", val |-> "consent_scope", d |-> d]
    ELSE IF \/ cid \notin CaseIds(d)
            \/ patient_user_id \notin UserIds(d)
            \/ provider_user_id \notin UserIds(d)
    THEN [kind |-> "IntegrityError", val |-> "FOREIGN KEY", d |-> d]
    ELSE LET kept == SelectSeq(d.shares,
                        LAMBDA s : ~(s.case_id = cid /\
                                     s.provider_user_id = provider_user_id))
         IN  [kind |-> "ok", val |-> provider_user_id,
              d |-> append_audit(
                        PromoteStatus(
                            InsertShare([d EXCEPT !.shares = kept], cid,
                                        patient_user_id, provider_user_id,
                                        consent_scope),
                            cid),
                        patient_user_id, "case_shared", cid)]

\* db.share_case called on its own: the error it raises, or the share row,
\* the status promotion and the case_shared row committed together
share_case(d, cid, patient_user_id, provider_user_id, consent_scope) ==
    IF consent_scope \notin ValidScopes
    THEN [kind |-> "ValueError", val |-> "consent_scope", d |-> d]
    ELSE IF \/ cid \notin CaseIds(d)
            \/ patient_user_id \notin UserIds(d)
            \/ provider_user_id \notin UserIds(d)
    THEN [kind |-> "IntegrityError", val |-> "FOREIGN KEY", d |-> d]
    ELSE IF ShareUniqueViolation(d, cid, provider_user_id)
    THEN [kind |-> "IntegrityError",
          val |-> "shares.case_id, shares.provider_user_id", d |-> d]
    ELSE [kind |-> "ok", val |-> provider_user_id,
          d |-> append_audit(
                    PromoteStatus(
                        InsertShare(d, cid, patient_user_id,
                                    provider_user_id, consent_scope),
                        cid),
                    patient_user_id, "case_shared", cid)]

\* a share that tests neither the provider's role nor the caller's ownership
share_outcome_unchecked(d, cid, patient, provider_username, consent_scope) ==
    LET provider == get_user_by_identifier(
                        d, username_to_lookup_hash(provider_username))
    IN  IF provider = 0 \/ cid \notin CaseIds(d)
        THEN Out("none", None)
        ELSE IF consent_scope \notin ValidScopes
        THEN Out("ValueError", "consent_scope")
        ELSE IF ShareUniqueViolation(d, cid, provider)
        THEN Out("IntegrityError", "shares.case_id, shares.provider_user_id")
        ELSE Out("insert", provider)

\* a share that tests the ownership before it looks the provider up
share_outcome_owner_first(d, cid, patient, provider_username, consent_scope) ==
    LET provider == get_user_by_identifier(
                        d, username_to_lookup_hash(provider_username))
    IN  IF cid \notin CaseIds(d) \/ d.cases[cid].patient_user_id # patient
        THEN Out("PermissionError", "does not own this case")
        ELSE IF provider = 0
        THEN Out("none", None)
        ELSE IF d.users[provider].role # "professional"
        THEN Out("ValueError", "not a professional")
        ELSE IF consent_scope \notin ValidScopes
        THEN Out("ValueError", "consent_scope")
        ELSE IF ShareUniqueViolation(d, cid, provider)
        THEN Out("IntegrityError", "shares.case_id, shares.provider_user_id")
        ELSE Out("insert", provider)

\* share_case_with_provider before it writes: what it returns or raises,
\* or "insert"
share_outcome(d, cid, patient, provider_username, consent_scope) ==
    LET provider == get_user_by_identifier(
                        d, username_to_lookup_hash(provider_username))
    IN  IF provider = 0
        THEN Out("none", None)
        ELSE IF d.users[provider].role # "professional"
        THEN Out("ValueError", "not a professional")
        ELSE IF cid \notin CaseIds(d) \/ d.cases[cid].patient_user_id # patient
        THEN Out("PermissionError", "does not own this case")
        ELSE IF consent_scope \notin ValidScopes
        THEN Out("ValueError", "consent_scope")
        ELSE IF ShareUniqueViolation(d, cid, provider)
        THEN Out("IntegrityError", "shares.case_id, shares.provider_user_id")
        ELSE Out("insert", provider)

\* case_manager.get_shares_for_case, without the order
get_shares_for_case(d, cid) ==
    { [provider_user_id |-> d.shares[i].provider_user_id,
       consent_scope |-> d.shares[i].consent_scope] :
         i \in {j \in 1..Len(d.shares) : d.shares[j].case_id = cid} }

\* the bundle assembled from the stored payload row, with no access check
build_export_bundle_direct(d, cid, req, key) ==
    LET rows == {p \in d.payloads : p.case_id = cid} IN
    IF cid \notin CaseIds(d) \/ rows = {}
    THEN [kind |-> "none", val |-> None, d |-> d]
    ELSE LET token == (CHOOSE p \in rows : TRUE).encrypted_blob IN
         IF DecryptOk(token, key)
         THEN [kind |-> "ok",
               val |-> [case |-> [id |-> cid] @@ d.cases[cid],
                        payload |-> decrypt_json(token, key),
                        shares |-> get_shares_for_case(d, cid)],
               d |-> d]
         ELSE [kind |-> "InvalidToken", val |-> "InvalidToken", d |-> d]

\* export._build_export_bundle: the bundle or None or the error, and the
\* database it leaves committed
build_export_bundle(d, cid, req, key) ==
    IF cid \notin CaseIds(d)
    THEN [kind |-> "none", val |-> None, d |-> d]
    ELSE LET r == get_case_payload(d, cid, req, key) IN
         IF r.kind = "ok"
         THEN [kind |-> "ok",
               val |-> [case |-> [id |-> cid] @@ d.cases[cid],
                        payload |-> r.val,
                        shares |-> get_shares_for_case(r.d, cid)],
               d |-> r.d]
         ELSE r

\* an export that goes on whatever the bundle is
ExportProceedsAlways(b) == TRUE

\* export_json / export_pdf: "if bundle is None: return None"; an error
\* raised by _build_export_bundle ends the call as well
ExportProceeds(b) == b.kind = "ok"

ExportOp(kind) == IF kind = "json" THEN "export_json" ELSE "export_pdf"

-----------------------------------------------------------------------------
(* Actions *)

InitWith(env, cap) ==
    /\ db = EmptyDb
    /\ conn = EmptyDb
    /\ call = Idle
    /\ procKey = NoKey
    /\ envKey = env
    /\ auditCap = cap
    /\ given = [doc |-> <<>>, pw |-> {}]

Init == InitWith(ConfiguredKey, MaxAudit)

\* the process dies and is started again: the open transaction is rolled
\* back, the memoized key is gone, the call in flight never returns
Crash ==
    /\ conn' = db
    /\ call' = Idle
    /\ procKey' = NoKey
    /\ UNCHANGED <<db, envKey, auditCap, given>>

\* the process exits between two calls and is started again
Restart ==
    /\ call.op = "idle"
    /\ procKey # NoKey
    /\ procKey' = NoKey
    /\ UNCHANGED <<db, conn, call, envKey, auditCap, given>>

\* register_user up to the INSERT INTO users of create_user.  A call that
\* raises (register_outcome) leaves every variable as it is: no step.
RegisterUser(username, password, role, salt) ==
    /\ call.op = "idle"
    /\ register_outcome(db, username, role).kind = "insert"
    /\ Len(db.users) < MaxUsers
    /\ Len(db.audit) < auditCap
    /\ conn' = InsertUser(db, role, username_to_lookup_hash(username))
    /\ db' = Durable(db, conn')
    /\ call' = [Idle EXCEPT !.op = "register_user",
                            !.pc = "create_user_audit",
                            !.uid = Len(db.users) + 1,
                            !.x = PasswordBlob(password, salt),
                            !.y = password]
    /\ UNCHANGED <<procKey, envKey, auditCap, given>>

\* create_user: the user_created audit row, then the commit
CreateUserAudit ==
    /\ call.op = "register_user"
    /\ call.pc = "create_user_audit"
    /\ conn' = append_audit(conn, call.uid, "user_created", NoCase)
    /\ db' = conn'
    /\ call' = [call EXCEPT !.pc = "credentials"]
    /\ UNCHANGED <<procKey, envKey, auditCap, given>>

\* register_user: INSERT INTO credentials in a transaction of its own,
\* then the return of the UserRecord
RegisterCredentials ==
    /\ call.op = "register_user"
    /\ call.pc = "credentials"
    /\ db' = IF \E c \in db.creds : c.user_id = call.uid
             THEN db
             ELSE InsertCredentials(db, call.uid, call.x)
    /\ conn' = db'
    /\ call' = Idle
    /\ given' = [given EXCEPT !.pw = @ \cup {[user_id |-> call.uid,
                                              password |-> call.y]}]
    /\ UNCHANGED <<procKey, envKey, auditCap>>

\* authenticate_user.  A call with an unknown username returns None and
\* leaves every variable as it is: no step.
AuthenticateUser(username, password) ==
    LET r == authenticate_user(db, username, password) IN
    /\ call.op = "idle"
    /\ r.d # db
    /\ Len(r.d.audit) <= auditCap
    /\ db' = r.d
    /\ conn' = r.d
    /\ UNCHANGED <<call, procKey, envKey, auditCap, given>>

\* create_case_for_patient up to the INSERT INTO cases of create_case:
\* the payload is encrypted first, which fixes the key of the process
CreateCaseForPatient(patient, doc) ==
    /\ call.op = "idle"
    /\ UNCHANGED <<envKey, auditCap, given>>
    /\ \E key \in get_fernet(procKey, envKey, db) :
        /\ procKey' = key
        /\ IF create_case_outcome(db, patient).kind # "insert"
           THEN UNCHANGED <<db, conn, call>>
           ELSE /\ Len(db.cases) < MaxCases
                /\ Len(db.audit) < auditCap
                /\ conn' = InsertCase(db, patient)
                /\ db' = Durable(db, conn')
                /\ call' = [Idle EXCEPT !.op = "create_case_for_patient",
                                        !.pc = "case_payload",
                                        !.pid = patient,
                                        !.cid = Len(db.cases) + 1,
                                        !.x = encrypt_json(doc, key),
                                        !.y = doc]

\* create_case: INSERT INTO case_payloads
CreateCasePayload ==
    /\ call.op = "create_case_for_patient"
    /\ call.pc = "case_payload"
    /\ conn' = InsertPayload(conn, call.cid, call.x)
    /\ db' = Durable(db, conn')
    /\ call' = [call EXCEPT !.pc = "case_audit"]
    /\ UNCHANGED <<procKey, envKey, auditCap, given>>

\* create_case: the case_created audit row, then the commit and the return
CreateCaseAudit ==
    /\ call.op = "create_case_for_patient"
    /\ call.pc = "case_audit"
    /\ conn' = append_audit(conn, call.pid, "case_created", call.cid)
    /\ db' = conn'
    /\ call' = Idle
    /\ given' = [given EXCEPT !.doc = Append(@, call.y)]
    /\ UNCHANGED <<procKey, envKey, auditCap>>

ReadCasePayload(cid, req) ==
    /\ call.op = "idle"
    /\ UNCHANGED <<call, envKey, auditCap, given>>
    /\ \E key \in get_fernet(procKey, envKey, db) :
        LET r == read_case_payload(db, cid, req, key) IN
        /\ Len(r.d.audit) <= auditCap
        /\ db' = r.d
        /\ conn' = r.d
        /\ procKey' = IF r.kind \in {"ok", "InvalidToken"} THEN key ELSE procKey

\* share_case_with_provider up to the INSERT INTO shares of share_case.
\* A call that returns None or raises (share_outcome) leaves every variable
\* as it is: no step.
ShareCaseWithProvider(cid, patient, provider_username, consent_scope) ==
    LET out == share_outcome(db, cid, patient, provider_username,
                             consent_scope)
    IN
    /\ call.op = "idle"
    /\ out.kind = "insert"
    /\ Len(db.audit) < auditCap
    /\ conn' = InsertShare(db, cid, patient, out.val, consent_scope)
    /\ db' = Durable(db, conn')
    /\ call' = [Idle EXCEPT !.op = "share_case_with_provider",
                            !.pc = "share_status",
                            !.cid = cid, !.pid = patient,
                            !.uid = out.val, !.x = consent_scope]
    /\ UNCHANGED <<procKey, envKey, auditCap, given>>

\* share_case: the status promotion
ShareStatus ==
    /\ call.op = "share_case_with_provider"
    /\ call.pc = "share_status"
    /\ conn' = PromoteStatus(conn, call.cid)
    /\ db' = Durable(db, conn')
    /\ call' = [call EXCEPT !.pc = "share_audit"]
    /\ UNCHANGED <<procKey, envKey, auditCap, given>>

\* share_case: the case_shared audit row, then the commit and the return
ShareAudit ==
    /\ call.op = "share_case_with_provider"
    /\ call.pc = "share_audit"
    /\ conn' = append_audit(conn, call.pid, "case_shared", call.cid)
    /\ db' = conn'
    /\ call' = Idle
    /\ UNCHANGED <<procKey, envKey, auditCap, given>>

\* export_json / export_pdf: _build_export_bundle
Export(kind, cid, req) ==
    /\ call.op = "idle"
    /\ UNCHANGED <<envKey, auditCap, given>>
    /\ \E key \in get_fernet(procKey, envKey, db) :
        LET b == build_export_bundle(db, cid, req, key) IN
        /\ Len(b.d.audit) + (IF ExportProceeds(b) THEN 1 ELSE 0) <= auditCap
        /\ db' = b.d
        /\ conn' = b.d
        /\ procKey' = IF b.kind \in {"ok", "InvalidToken"} THEN key ELSE procKey
        /\ call' = IF ExportProceeds(b)
                   THEN [Idle EXCEPT !.op = ExportOp(kind),
                                     !.pc = "export_audit",
                                     !.cid = cid, !.uid = req.id,
                                     !.x = b.val]
                   ELSE call

\* export_json / export_pdf: the export audit row, written in a transaction
\* of its own, then the return of the rendered bundle
ExportAudit ==
    /\ call.pc = "export_audit"
    /\ db' = append_audit(db, call.uid, call.op, call.cid)
    /\ conn' = db'
    /\ call' = Idle
    /\ UNCHANGED <<procKey, envKey, auditCap, given>>

\* encrypt_json called on its own with a dict
CryptoEncrypt ==
    /\ call.op = "crypto"
    /\ call.pc = "data"
    /\ \E key \in get_fernet(procKey, envKey, db) :
        /\ procKey' = key
        /\ call' = [call EXCEPT !.pc = "token",
                                !.x = encrypt_json(call.x, key)]
    /\ UNCHANGED <<db, conn, envKey, auditCap, given>>

\* a token of the same dict that another key made is presented instead
CryptoForeignToken(fk) ==
    /\ call.op = "crypto"
    /\ call.pc = "data"
    /\ fk \notin get_fernet(procKey, envKey, db)
    /\ call' = [call EXCEPT !.pc = "token", !.x = encrypt_json(call.x, fk)]
    /\ UNCHANGED <<db, conn, procKey, envKey, auditCap, given>>

\* the token is altered or cut before it is presented
CryptoTamper ==
    /\ call.op = "crypto"
    /\ call.pc = "token"
    /\ call.x.intact
    /\ call' = [call EXCEPT !.x.intact = FALSE]
    /\ UNCHANGED <<db, conn, procKey, envKey, auditCap, given>>

\* decrypt_json called on its own with the token
CryptoDecrypt ==
    /\ call.op = "crypto"
    /\ call.pc = "token"
    /\ \E key \in get_fernet(procKey, envKey, db) :
        /\ procKey' = key
        /\ call' = [call EXCEPT
                        !.pc = "done",
                        !.x = [token |-> call.x,
                               result |-> decrypt_json_result(call.x, key)]]
    /\ UNCHANGED <<db, conn, envKey, auditCap, given>>

\* db.share_case called on its own, in one transaction.  A call that raises
\* leaves every variable as it is: no step.
ShareCase(cid, patient_user_id, provider_user_id, consent_scope) ==
    LET r == share_case(db, cid, patient_user_id, provider_user_id,
                        consent_scope)
    IN
    /\ call.op = "idle"
    /\ r.kind = "ok"
    /\ Len(r.d.audit) <= auditCap
    /\ db' = r.d
    /\ conn' = r.d
    /\ UNCHANGED <<call, procKey, envKey, auditCap, given>>

-----------------------------------------------------------------------------
(* Two calls at a time: each thread has its own connection, and a
   transaction is one step, SQLite letting one writer in at a time.  The
   threads are kept in call.x. *)

Threads == {1, 2}

\* the document passed where the document makes no difference
DocsOne == {CHOOSE doc \in Docs : TRUE}

\* the scope the threads pass
ScopesRace == {"read"}

IdleThread ==
    [op |-> "idle", pc |-> "idle", username |-> <<>>, role |-> "",
     uid |-> 0, cid |-> 0, pid |-> 0, scope |-> "", res |-> ""]

\* the thread is between two calls
Ready(t) == call.op = "threads" /\ call.x[t].pc \in {"idle", "returned"}

ThreadReturned(op, res) == [IdleThread EXCEPT !.op = op, !.pc = "returned",
                                        !.res = res]

\* the calls that have passed their checks and not written yet
Pending(pc) == Cardinality({t \in Threads : call.x[t].pc = pc})

\* register_user up to its get_user_by_identifier check
ThreadRegisterCheck(t, username, role) ==
    /\ Ready(t)
    /\ role \in ValidRoles
    /\ Len(db.users) + Pending("create_user") < MaxUsers
    /\ Len(db.audit) + Pending("create_user") + Pending("share_case")
          < auditCap
    /\ call' = [call EXCEPT !.x[t] =
            IF get_user_by_identifier(
                   db, username_to_lookup_hash(username)) # 0
            THEN ThreadReturned("register_user", "ValueError")
            ELSE [IdleThread EXCEPT !.op = "register_user",
                                    !.pc = "create_user",
                                    !.username = username, !.role = role]]
    /\ UNCHANGED <<db, conn, procKey, envKey, auditCap, given>>

\* register_user: the transaction of create_user
ThreadCreateUser(t) ==
    LET th == call.x[t]
        h == username_to_lookup_hash(th.username)
    IN
    /\ call.op = "threads"
    /\ th.pc = "create_user"
    /\ IF UserHashTaken(db, h)
       THEN /\ call' = [call EXCEPT !.x[t] =
                            ThreadReturned("register_user", "IntegrityError")]
            /\ UNCHANGED db
       ELSE /\ db' = append_audit(InsertUser(db, th.role, h),
                                  Len(db.users) + 1, "user_created", NoCase)
            /\ call' = [call EXCEPT !.x[t].pc = "credentials",
                                    !.x[t].uid = Len(db.users) + 1]
    /\ conn' = db'
    /\ UNCHANGED <<procKey, envKey, auditCap, given>>

\* register_user: the transaction of the credentials row, and the return
ThreadCredentials(t, password, salt) ==
    /\ call.op = "threads"
    /\ call.x[t].pc = "credentials"
    /\ db' = InsertCredentials(db, call.x[t].uid,
                               PasswordBlob(password, salt))
    /\ conn' = db'
    /\ call' = [call EXCEPT !.x[t] = ThreadReturned("register_user", "ok")]
    /\ UNCHANGED <<procKey, envKey, auditCap, given>>

\* create_case_for_patient, whose one transaction is one step
ThreadCreateCase(t, patient, doc) ==
    /\ Ready(t)
    /\ create_case_outcome(db, patient).kind = "insert"
    /\ Len(db.cases) < MaxCases
    /\ Len(db.audit) + Pending("create_user") + Pending("share_case")
          < auditCap
    /\ \E key \in get_fernet(procKey, envKey, db) :
        /\ procKey' = key
        /\ db' = append_audit(
                    InsertPayload(InsertCase(db, patient),
                                  Len(db.cases) + 1, encrypt_json(doc, key)),
                    patient, "case_created", Len(db.cases) + 1)
    /\ conn' = db'
    /\ given' = [given EXCEPT !.doc = Append(@, doc)]
    /\ call' = [call EXCEPT !.x[t] = ThreadReturned("create_case_for_patient",
                                              "ok")]
    /\ UNCHANGED <<envKey, auditCap>>

\* share_case_with_provider up to its call of db.share_case: the provider
\* looked up, the role and the ownership tested
ThreadShareCheck(t, cid, patient, provider_username, consent_scope) ==
    LET provider == get_user_by_identifier(
                        db, username_to_lookup_hash(provider_username))
    IN
    /\ Ready(t)
    /\ Len(db.audit) + Pending("create_user") + Pending("share_case")
          < auditCap
    /\ call' = [call EXCEPT !.x[t] =
            IF provider = 0
            THEN ThreadReturned("share_case_with_provider", None)
            ELSE IF db.users[provider].role # "professional"
            THEN ThreadReturned("share_case_with_provider", "ValueError")
            ELSE IF cid \notin CaseIds(db)
                    \/ db.cases[cid].patient_user_id # patient
            THEN ThreadReturned("share_case_with_provider", "PermissionError")
            ELSE [IdleThread EXCEPT !.op = "share_case_with_provider",
                                    !.pc = "share_case",
                                    !.uid = provider, !.cid = cid,
                                    !.pid = patient,
                                    !.scope = consent_scope]]
    /\ UNCHANGED <<db, conn, procKey, envKey, auditCap, given>>

\* share_case_with_provider: the transaction of db.share_case, and the
\* return
ThreadShareCase(t) ==
    LET th == call.x[t]
        r == share_case(db, th.cid, th.pid, th.uid, th.scope)
    IN
    /\ call.op = "threads"
    /\ th.pc = "share_case"
    /\ db' = r.d
    /\ conn' = r.d
    /\ call' = [call EXCEPT !.x[t] =
                    [th EXCEPT !.pc = "returned", !.res = r.kind]]
    /\ UNCHANGED <<procKey, envKey, auditCap, given>>

-----------------------------------------------------------------------------
(* Specifications *)

Next ==
    \/ Crash
    \/ \E u \in RawUsernames, p \in Passwords, r \in RoleInputs, s \in Salts :
          RegisterUser(u, p, r, s)
    \/ CreateUserAudit
    \/ RegisterCredentials
    \/ \E u \in RawUsernames, p \in LoginPasswords : AuthenticateUser(u, p)
    \/ \E patient \in 1..(Len(db.users) + 1), doc \in Docs :
          CreateCaseForPatient(patient, doc)
    \/ CreateCasePayload
    \/ CreateCaseAudit
    \/ \E cid \in 1..(Len(db.cases) + 1), req \in Callers(db) :
          ReadCasePayload(cid, req)
    \/ \E cid \in 1..(Len(db.cases) + 1), patient \in 1..(Len(db.users) + 1),
          u \in RawUsernames, sc \in ScopeInputs :
          ShareCaseWithProvider(cid, patient, u, sc)
    \/ ShareStatus
    \/ ShareAudit
    \/ \E k \in ExportKinds, cid \in 1..(Len(db.cases) + 1),
          req \in Callers(db) : Export(k, cid, req)
    \/ ExportAudit

Spec == Init /\ [][Next]_vars

\* registration, case creation, sharing and payload reads by processes that
\* are started again, with and without a configured key
InitRestart ==
    \E env \in {ConfiguredKey, Unset} : InitWith(env, MaxAuditRestart)

NextRestart ==
    \/ Restart
    \/ \E u \in RawUsernames, p \in Passwords, r \in RoleInputs, s \in Salts :
          RegisterUser(u, p, r, s)
    \/ CreateUserAudit
    \/ RegisterCredentials
    \/ \E patient \in 1..(Len(db.users) + 1), doc \in Docs :
          CreateCaseForPatient(patient, doc)
    \/ CreateCasePayload
    \/ CreateCaseAudit
    \/ \E cid \in 1..(Len(db.cases) + 1), req \in Callers(db) :
          ReadCasePayload(cid, req)
    \/ \E cid \in 1..(Len(db.cases) + 1), patient \in 1..(Len(db.users) + 1),
          u \in RawUsernames, sc \in ScopeInputsRead :
          ShareCaseWithProvider(cid, patient, u, sc)
    \/ ShareStatus
    \/ ShareAudit

SpecRestart == InitRestart /\ [][NextRestart]_vars

\* case creation, sharing and payload reads by processes that may die at any
\* step, with and without a configured key
InitCase ==
    \E env \in {ConfiguredKey, Unset} : InitWith(env, MaxAuditCase)

NextCase ==
    \/ Crash
    \/ \E u \in RawUsernames, p \in Passwords, r \in RoleInputs, s \in Salts :
          RegisterUser(u, p, r, s)
    \/ CreateUserAudit
    \/ RegisterCredentials
    \/ \E patient \in 1..(Len(db.users) + 1), doc \in Docs :
          CreateCaseForPatient(patient, doc)
    \/ CreateCasePayload
    \/ CreateCaseAudit
    \/ \E cid \in 1..(Len(db.cases) + 1), req \in Callers(db) :
          ReadCasePayload(cid, req)
    \/ \E cid \in 1..(Len(db.cases) + 1), patient \in 1..(Len(db.users) + 1),
          u \in RawUsernames, sc \in ScopeInputsRead :
          ShareCaseWithProvider(cid, patient, u, sc)
    \/ ShareStatus
    \/ ShareAudit

SpecCase == InitCase /\ [][NextCase]_vars

\* the Store called on its own for sharing, with every scope and every pair
\* of user ids: share_case_with_provider, when it gets as far as writing,
\* is one of these calls
InitStore == InitWith(ConfiguredKey, MaxAuditStore)

NextStore ==
    \/ \E u \in RawUsernames, p \in Passwords, r \in RoleInputs, s \in Salts :
          RegisterUser(u, p, r, s)
    \/ CreateUserAudit
    \/ RegisterCredentials
    \/ \E patient \in 1..(Len(db.users) + 1), doc \in DocsOne :
          CreateCaseForPatient(patient, doc)
    \/ CreateCasePayload
    \/ CreateCaseAudit
    \/ \E cid \in 1..(Len(db.cases) + 1), req \in Callers(db) :
          ReadCasePayload(cid, req)
    \/ \E cid \in 1..(Len(db.cases) + 1), patient \in 1..(Len(db.users) + 1),
          provider \in 1..(Len(db.users) + 1), sc \in ScopeInputs :
          ShareCase(cid, patient, provider, sc)

SpecStore == InitStore /\ [][NextStore]_vars

\* registering, creating cases and sharing them through the Case Service,
\* with every scope
NextShare ==
    \/ \E u \in RawUsernames, p \in Passwords, r \in RoleInputs, s \in Salts :
          RegisterUser(u, p, r, s)
    \/ CreateUserAudit
    \/ RegisterCredentials
    \/ \E patient \in 1..(Len(db.users) + 1), doc \in DocsOne :
          CreateCaseForPatient(patient, doc)
    \/ CreateCasePayload
    \/ CreateCaseAudit
    \/ \E cid \in 1..(Len(db.cases) + 1), patient \in 1..(Len(db.users) + 1),
          u \in RawUsernames, sc \in ScopeInputs :
          ShareCaseWithProvider(cid, patient, u, sc)
    \/ ShareStatus
    \/ ShareAudit

SpecShare == InitStore /\ [][NextShare]_vars

\* two threads of one process registering users, creating cases and sharing
\* them at the same time
InitRace ==
    /\ db = EmptyDb
    /\ conn = EmptyDb
    /\ call = [Idle EXCEPT !.op = "threads",
                           !.x = [t \in Threads |-> IdleThread]]
    /\ procKey = NoKey
    /\ envKey = ConfiguredKey
    /\ auditCap = MaxAuditRace
    /\ given = [doc |-> <<>>, pw |-> {}]

NextRace ==
    \E t \in Threads :
        \/ \E u \in RawUsernames, r \in RoleInputs :
              ThreadRegisterCheck(t, u, r)
        \/ ThreadCreateUser(t)
        \/ \E p \in Passwords, s \in Salts : ThreadCredentials(t, p, s)
        \/ \E patient \in UserIds(db), doc \in DocsOne :
              ThreadCreateCase(t, patient, doc)
        \/ \E cid \in 1..(Len(db.cases) + 1), patient \in UserIds(db),
              u \in RawUsernames, sc \in ScopesRace :
              ThreadShareCheck(t, cid, patient, u, sc)
        \/ ThreadShareCase(t)

SpecRace == InitRace /\ [][NextRace]_vars

\* encrypt_json and decrypt_json called on their own: call.y is the dict,
\* call.x the dict, then the token, then the token and what decrypt_json
\* made of it
InitCrypto ==
    \E env \in {ConfiguredKey, Unset}, data \in JsonInputs :
        /\ db = EmptyDb
        /\ conn = EmptyDb
        /\ call = [Idle EXCEPT !.op = "crypto", !.pc = "data",
                               !.x = data, !.y = data]
        /\ procKey = NoKey
        /\ envKey = env
        /\ auditCap = Len(EmptyDb.audit)
        /\ given = [doc |-> <<>>, pw |-> {}]

NextCrypto ==
    \/ CryptoEncrypt
    \/ \E fk \in ForeignKeys : CryptoForeignToken(fk)
    \/ CryptoTamper
    \/ CryptoDecrypt

SpecCrypto == InitCrypto /\ [][NextCrypto]_vars

\* registration and authentication
InitAuth == InitWith(ConfiguredKey, MaxAuditAuth)

NextAuth ==
    \/ Crash
    \/ \E u \in RawUsernames, p \in Passwords, r \in RoleInputs, s \in Salts :
          RegisterUser(u, p, r, s)
    \/ CreateUserAudit
    \/ RegisterCredentials
    \/ \E u \in RawUsernames, p \in LoginPasswords : AuthenticateUser(u, p)

SpecAuth == InitAuth /\ [][NextAuth]_vars

\* registration, case creation, sharing and exports
InitExport == InitWith(ConfiguredKey, MaxAuditExport)

NextExport ==
    \/ \E u \in RawUsernames, p \in Passwords, r \in RoleInputs, s \in Salts :
          RegisterUser(u, p, r, s)
    \/ CreateUserAudit
    \/ RegisterCredentials
    \/ \E patient \in 1..(Len(db.users) + 1), doc \in Docs :
          CreateCaseForPatient(patient, doc)
    \/ CreateCasePayload
    \/ CreateCaseAudit
    \/ \E cid \in 1..(Len(db.cases) + 1), patient \in 1..(Len(db.users) + 1),
          u \in RawUsernames, sc \in ScopeInputsRead :
          ShareCaseWithProvider(cid, patient, u, sc)
    \/ ShareStatus
    \/ ShareAudit
    \/ \E k \in ExportKinds, cid \in 1..(Len(db.cases) + 1),
          req \in Callers(db) : Export(k, cid, req)
    \/ ExportAudit

SpecExport == InitExport /\ [][NextExport]_vars

-----------------------------------------------------------------------------
(* Vocabulary of the properties *)

AuditRow(uid, action, cid) ==
    [user_id |-> uid, action |-> action, case_id |-> cid]

OwnerOf(d, cid) == d.cases[cid].patient_user_id

Owns(d, cid, uid) == cid \in CaseIds(d) /\ OwnerOf(d, cid) = uid

HasShare(d, cid, uid) ==
    \E i \in DOMAIN d.shares :
        d.shares[i].case_id = cid /\ d.shares[i].provider_user_id = uid

ShareCount(d, cid, uid) ==
    Cardinality({i \in DOMAIN d.shares :
        d.shares[i].case_id = cid /\ d.shares[i].provider_user_id = uid})

\* the record a registered user presents as requester
Req(d, uid) == [id |-> uid, role |-> d.users[uid].role]

Professionals(d) == {u \in UserIds(d) : d.users[u].role = "professional"}

UsernamesOf(d, uid) ==
    {u \in RawUsernames :
        d.users[uid].identifier_hash = Sha256(Lower(Strip(u)))}

Logged(d, uid, action, cid) ==
    \E i \in DOMAIN d.audit : d.audit[i] = AuditRow(uid, action, cid)

LastLogged(d, uid, action, cid) ==
    d.audit # <<>> /\ d.audit[Len(d.audit)] = AuditRow(uid, action, cid)

CountRows(a, row) == Cardinality({i \in DOMAIN a : a[i] = row})

ExportRows(a) ==
    {i \in DOMAIN a : a[i].action \in {"export_json", "export_pdf"}}

\* the username a stored identifier_hash is the digest of
UsernameOfHash(h) == h[2]

\* the spellings that name user uid: those with the trimmed, lower-cased
\* form of the username uid was registered with
SpellingsOf(d, uid) ==
    {n \in RawUsernames :
        Lower(Strip(n)) =
            Lower(Strip(UsernameOfHash(d.users[uid].identifier_hash)))}

\* uid owns the case, or presents the professional role and has a share row
Authorized(d, cid, req) ==
    \/ Owns(d, cid, req.id)
    \/ req.role = "professional" /\ HasShare(d, cid, req.id)

\* the key the stored payload of case cid was encrypted with
StoredKey(d, cid) ==
    (CHOOSE p \in d.payloads : p.case_id = cid).encrypted_blob.key

IsPrefix(a, b) == Len(a) <= Len(b) /\ SubSeq(b, 1, Len(a)) = a

-----------------------------------------------------------------------------
(* Properties *)

\* C1 as stated: a payload read returns a document only to the owner of the
\* case or to a professional with a share row for it, and the owner of an
\* existing case always gets the document the case was created with.
C1_OwnerAlwaysReads ==
    \A cid \in 1..(Len(db.cases) + 1), req \in Requesters(db),
       key \in get_fernet(procKey, envKey, db) :
        LET r == read_case_payload(db, cid, req, key) IN
        /\ r.kind = "ok" => Authorized(db, cid, req)
        /\ Owns(db, cid, req.id) =>
              r.kind = "ok" /\ r.val = given.doc[cid]

\* C1: a payload read returns a document only to the owner of the case or
\* to a professional with a share row for it; the owner of an existing case
\* gets the document the case was created with when the key of the process
\* is the key the payload was encrypted with, which it is whenever a key is
\* configured, and the decryption failure when it is not.
C1_ReadOnlyIfAuthorized ==
    \A cid \in 1..(Len(db.cases) + 1), req \in Requesters(db),
       key \in get_fernet(procKey, envKey, db) :
        LET r == read_case_payload(db, cid, req, key) IN
        /\ r.kind = "ok" => Authorized(db, cid, req)
        /\ Owns(db, cid, req.id) =>
              /\ key = StoredKey(db, cid) =>
                    r.kind = "ok" /\ r.val = given.doc[cid]
              /\ key # StoredKey(db, cid) => r.kind = "InvalidToken"
              /\ envKey # Unset => key = StoredKey(db, cid)

\* an owner has read the own case, and a later process, which has another
\* key, has tried to
C1_Witness ==
    \E cid \in CaseIds(db) :
        /\ CountRows(db.audit, AuditRow(OwnerOf(db, cid), "payload_read", cid))
              >= 2
        /\ procKey \notin {NoKey, StoredKey(db, cid)}

\* C2: a read of an existing case by a professional who neither owns it nor
\* has a share row returns None and leaves the database as it was but for one
\* more audit row (p, unauthorized_payload_access, c).
C2_DeniedReadIsAudited ==
    \A cid \in CaseIds(db), p \in Professionals(db),
       key \in get_fernet(procKey, envKey, db) :
        (~Owns(db, cid, p) /\ ~HasShare(db, cid, p)) =>
            LET r == read_case_payload(db, cid, Req(db, p), key) IN
            /\ r.kind = "none"
            /\ r.d = [db EXCEPT !.audit =
                        Append(@, AuditRow(p, "unauthorized_payload_access",
                                           cid))]

\* the last thing that happened is a refused read by such a professional
C2_Witness ==
    \E cid \in CaseIds(db), p \in Professionals(db) :
        /\ ~Owns(db, cid, p)
        /\ ~HasShare(db, cid, p)
        /\ LastLogged(db, p, "unauthorized_payload_access", cid)

\* what C3 as stated promises of case cid and professional p in database d
C3_Post(d, cid, p, keys) ==
    /\ d.cases[cid].status = "shared"
    /\ \A key \in keys :
        LET rp == read_case_payload(d, cid, Req(d, p), key)
            ro == read_case_payload(d, cid, Req(d, OwnerOf(d, cid)), key)
        IN  rp.kind = "ok" /\ ro.kind = "ok" /\ rp.val = ro.val

\* C3 as stated: once a case is shared with a professional who had been
\* refused, every read of the case by that professional returns the document
\* the owner's read returns, and the case is "shared".
C3_SharedThenAlwaysReadable ==
    \A i \in DOMAIN db.shares :
        LET cid == db.shares[i].case_id
            p == db.shares[i].provider_user_id
        IN  Logged(db, p, "unauthorized_payload_access", cid) =>
                C3_Post(db, cid, p, get_fernet(procKey, envKey, db))

\* what C3 holds of case cid and professional p in database d, read with
\* one of keys by a process configured with env
C3_ReadsAsOwner(d, cid, p, keys, env) ==
    /\ d.cases[cid].status = "shared"
    /\ \A key \in keys :
        LET rp == read_case_payload(d, cid, Req(d, p), key)
            ro == read_case_payload(d, cid, Req(d, OwnerOf(d, cid)), key)
        IN  /\ rp.kind = ro.kind
            /\ rp.val = ro.val
            /\ key = StoredKey(d, cid) =>
                  rp.kind = "ok" /\ rp.val = given.doc[cid]
            /\ key # StoredKey(d, cid) => rp.kind = "InvalidToken"
            /\ env # Unset => key = StoredKey(d, cid)

\* C3: when share_case_with_provider returns for a professional who had been
\* refused, and at every time after that, the case is "shared" and a read of
\* the case by that professional ends as the owner's read does: with the
\* same document when the key of the process is the key the payload was
\* encrypted with, which it is whenever a key is configured, and with the
\* decryption failure when it is not.
C3_SharedThenReadable ==
    /\ [][ShareAudit =>
            (Logged(db, call.uid, "unauthorized_payload_access", call.cid) =>
                C3_ReadsAsOwner(db', call.cid, call.uid,
                                get_fernet(procKey', envKey', db'), envKey'))
         ]_vars
    /\ [](\A i \in DOMAIN db.shares :
            LET cid == db.shares[i].case_id
                p == db.shares[i].provider_user_id
            IN  Logged(db, p, "unauthorized_payload_access", cid) =>
                    C3_ReadsAsOwner(db, cid, p,
                                    get_fernet(procKey, envKey, db), envKey))

\* a professional was refused, and the case has then been shared with that
\* professional, who is not the owner
C3_Witness ==
    \E i, j \in DOMAIN db.audit, cid \in CaseIds(db),
      p \in Professionals(db) :
        /\ i < j
        /\ db.audit[i] = AuditRow(p, "unauthorized_payload_access", cid)
        /\ db.audit[j] = AuditRow(OwnerOf(db, cid), "case_shared", cid)
        /\ HasShare(db, cid, p)
        /\ call.op = "idle"

\* C4: there is never more than one share row for a (case, provider) pair,
\* and sharing a case again with a provider who has a share row for it
\* raises the integrity error, not the validation error, whatever the
\* spelling of the username and the scope.
C4_DuplicateShareRejected ==
    /\ \A cid \in CaseIds(db), p \in UserIds(db) : ShareCount(db, cid, p) <= 1
    /\ \A i \in DOMAIN db.shares :
        LET cid == db.shares[i].case_id
            p == db.shares[i].provider_user_id
        IN  \A u \in UsernamesOf(db, p), sc \in ValidScopes :
                share_outcome(db, cid, OwnerOf(db, cid), u, sc).kind
                    = "IntegrityError"

\* a case has been shared with a provider, and the caller may ask again
C4_Witness ==
    /\ call.op = "idle"
    /\ \E i \in DOMAIN db.shares :
        /\ ShareCount(db, db.shares[i].case_id,
                      db.shares[i].provider_user_id) = 1
        /\ LastLogged(db, db.shares[i].patient_user_id, "case_shared",
                      db.shares[i].case_id)

\* C5: no two user rows stand for usernames with the same trimmed,
\* lower-cased form (identifier_hash is unique), no user has a second
\* credentials row or user_created audit row, and register_user with any
\* spelling of the username of an existing user raises the "already
\* registered" error before it writes anything.
C5_DuplicateUsernameRejected ==
    /\ \A i, j \in UserIds(db) :
        i # j =>
            /\ db.users[i].identifier_hash # db.users[j].identifier_hash
            /\ SpellingsOf(db, i) \cap SpellingsOf(db, j) = {}
    /\ \A u \in UserIds(db) :
        /\ Cardinality({c \in db.creds : c.user_id = u}) <= 1
        /\ CountRows(db.audit, AuditRow(u, "user_created", NoCase)) <= 1
        /\ \A n \in SpellingsOf(db, u), role \in ValidRoles :
              register_outcome(db, n, role)
                  = Out("ValueError", "already registered")

\* two users are registered, one of them under a username that has another
\* spelling, and the next call can be made
C5_Witness ==
    /\ call.op = "idle"
    /\ Cardinality({g.user_id : g \in given.pw}) = 2
    /\ \E u \in UserIds(db) : Cardinality(SpellingsOf(db, u)) >= 2

\* C6: for a user whose registration has returned, under every spelling of
\* the username: authenticate_user with another password than the registered
\* one returns None and leaves the database as it was but for one more audit
\* row (u, login_failure); with the registered password it returns the record
\* of u and leaves the database as it was but for one more audit row
\* (u, login_success).
C6_AuthenticateOutcome ==
    \A g \in given.pw, p \in LoginPasswords :
        \A n \in SpellingsOf(db, g.user_id) :
            LET r == authenticate_user(db, n, p) IN
            IF p = g.password
            THEN /\ r.kind = "ok"
                 /\ r.val = UserRecord(db, g.user_id)
                 /\ r.d = [db EXCEPT !.audit =
                             Append(@, AuditRow(g.user_id, "login_success",
                                                NoCase))]
            ELSE /\ r.kind = "none"
                 /\ r.val = None
                 /\ r.d = [db EXCEPT !.audit =
                             Append(@, AuditRow(g.user_id, "login_failure",
                                                NoCase))]

\* a registered user has failed to log in and then logged in
C6_Witness ==
    \E g \in given.pw, i, j \in DOMAIN db.audit :
        /\ i < j
        /\ db.audit[i] = AuditRow(g.user_id, "login_failure", NoCase)
        /\ db.audit[j] = AuditRow(g.user_id, "login_success", NoCase)

\* C7: for a user who is neither the owner of the case nor a professional
\* with a share row for it, and for a case that does not exist, the bundle
\* is None, the export stops there and the log has no more export rows than
\* before; an export audit row is pending, or in the log, only for a
\* requester the bundle was built for.
C7_ExportAuditOnlyOnSuccess ==
    /\ \A cid \in 1..(Len(db.cases) + 1), req \in Requesters(db),
          key \in get_fernet(procKey, envKey, db) :
        (req.id \in UserIds(db) /\ ~Authorized(db, cid, req)) =>
            LET b == build_export_bundle(db, cid, req, key) IN
            /\ b.kind = "none"
            /\ ~ExportProceeds(b)
            /\ Cardinality(ExportRows(b.d.audit))
                  = Cardinality(ExportRows(db.audit))
    /\ call.pc = "export_audit" =>
          Authorized(db, call.cid, Req(db, call.uid))
    /\ \A i \in ExportRows(db.audit) :
          Authorized(db, db.audit[i].case_id, Req(db, db.audit[i].user_id))

\* an export of a case was refused to one user and logged for another
C7_Witness ==
    \E i \in ExportRows(db.audit), u \in UserIds(db) :
        /\ u # db.audit[i].user_id
        /\ ~Authorized(db, db.audit[i].case_id, Req(db, u))
        /\ Logged(db, u, "unauthorized_payload_access", db.audit[i].case_id)

\* C8: _build_export_bundle yields a bundle only for the owner of the case
\* or a professional with a share row for it, and then get_case_payload of
\* the same call returned the document that is in the bundle and logged the
\* read; the bundle an export is about to return holds the document of the
\* case, read for that requester.
C8_ExportNeverBypasses ==
    /\ \A cid \in 1..(Len(db.cases) + 1), req \in Requesters(db),
          key \in get_fernet(procKey, envKey, db) :
        LET b == build_export_bundle(db, cid, req, key)
            r == get_case_payload(db, cid, req, key)
        IN  b.kind = "ok" =>
                /\ Authorized(db, cid, req)
                /\ r.kind = "ok"
                /\ b.val.payload = r.val
                /\ b.d = r.d
    /\ call.pc = "export_audit" =>
          /\ Authorized(db, call.cid, Req(db, call.uid))
          /\ call.x.payload = given.doc[call.cid]
          /\ LastLogged(db, call.uid, "payload_read", call.cid)

\* an export for a professional who is not the owner is about to return
C8_Witness ==
    /\ call.pc = "export_audit"
    /\ ~Owns(db, call.cid, call.uid)
    /\ HasShare(db, call.cid, call.uid)

\* C9: in the committed database, whenever the process may die, a user row
\* exists iff its user_created audit row does, a case row iff its
\* case_created row, and a case has as many share rows as case_shared rows.
C9_AuditAndDataAtomic ==
    /\ \A u \in 1..(Len(db.users) + 1) :
        CountRows(db.audit, AuditRow(u, "user_created", NoCase))
            = IF u \in UserIds(db) THEN 1 ELSE 0
    /\ \A c \in 1..(Len(db.cases) + 1), u \in 1..(Len(db.users) + 1) :
        /\ CountRows(db.audit, AuditRow(u, "case_created", c))
              = IF Owns(db, c, u) THEN 1 ELSE 0
        /\ CountRows(db.audit, AuditRow(u, "case_shared", c))
              = Cardinality({i \in DOMAIN db.shares :
                    /\ db.shares[i].case_id = c
                    /\ db.shares[i].patient_user_id = u})
    /\ \A i \in DOMAIN db.audit :
        db.audit[i].action \in {"user_created", "case_created", "case_shared"}
            => db.audit[i].user_id \in UserIds(db)

\* a process that has been started again (its key is not loaded although a
\* case exists) has inserted a share row and not yet the audit row
C9_Witness ==
    /\ procKey = NoKey
    /\ db.cases # <<>>
    /\ call.pc = "share_status"
    /\ Len(conn.shares) > Len(db.shares)

\* C10: every step leaves the committed audit rows as they are and in their
\* place, and adds new rows only after them.
C10_AuditAppendOnly == [][IsPrefix(db.audit, db'.audit)]_vars

\* the log holds rows of the Store, the Case Service and the Export Service,
\* written before and after a restart
C10_Witness ==
    /\ procKey = NoKey
    /\ \E i, j, k \in DOMAIN db.audit :
        /\ i < j /\ j < k
        /\ db.audit[i].action = "case_created"
        /\ db.audit[j].action = "payload_read"
        /\ db.audit[k].action \in {"export_json", "export_pdf"}

\* what plain json.dumps writes without its default hook: str and int keys,
\* and str, int, list and tuple values
RECURSIVE JsonSerializableValue(_)
JsonSerializableValue(x) ==
    \/ x.t \in {"str", "int"}
    \/ /\ x.t \in {"list", "tuple"}
       /\ \A i \in DOMAIN x.v : JsonSerializableValue(x.v[i])

JsonSerializable(d) ==
    \A e \in d : e.k.t \in {"str", "int"} /\ JsonSerializableValue(e.v)

\* what json.loads can give back: str keys, and str, int and list values
RECURSIVE JsonNativeValue(_)
JsonNativeValue(x) ==
    \/ x.t \in {"str", "int"}
    \/ x.t = "list" /\ \A i \in DOMAIN x.v : JsonNativeValue(x.v[i])

JsonNative(d) == \A e \in d : e.k.t = "str" /\ JsonNativeValue(e.v)

\* decrypt_json has been given the token encrypt_json made in this process
OwnTokenDecrypted ==
    /\ call.op = "crypto"
    /\ call.pc = "done"
    /\ call.x.token.intact
    /\ call.x.token.key = procKey

WithToken(d, cid, tok) ==
    [d EXCEPT !.payloads =
        {IF p.case_id = cid THEN [p EXCEPT !.encrypted_blob = tok] ELSE p :
            p \in @}]

StoredToken(d, cid) ==
    (CHOOSE p \in d.payloads : p.case_id = cid).encrypted_blob

\* C12: for the stored token of every case and for that token altered, read
\* under the key of the process or any other: unless the token is intact and
\* was made with the key, decrypt_json raises InvalidToken and returns no
\* value, and so does get_case_payload for every user allowed to read the
\* case.
C12_ForeignTokenRaises ==
    \A cid \in CaseIds(db) :
      \A tok \in {StoredToken(db, cid),
                  [StoredToken(db, cid) EXCEPT !.intact = FALSE]},
         key \in get_fernet(procKey, envKey, db) \cup ForeignKeys :
        ~(tok.intact /\ tok.key = key) =>
            /\ decrypt_json_result(tok, key).kind = "InvalidToken"
            /\ \A req \in Requesters(db) :
                (req.id \in UserIds(db) /\ Authorized(db, cid, req)) =>
                    get_case_payload(WithToken(db, cid, tok), cid, req, key).kind
                        = "InvalidToken"

\* a process with another key than the stored token's has just read the case
C12_Witness ==
    \E cid \in CaseIds(db), u \in UserIds(db) :
        /\ procKey \notin {NoKey, StoredKey(db, cid)}
        /\ LastLogged(db, u, "payload_read", cid)

\* C13 as stated: whenever provider_username resolves to a user that is not
\* a professional, or the calling patient does not own the case,
\* share_case_with_provider raises the permission error (no share row, no
\* status change and no case_shared row come of it: the call writes nothing
\* unless share_outcome is "insert").
C13_RefusedShareIsPermissionError ==
    \A cid \in 1..MaxCases, patient \in UserIds(db),
       provider_username \in RawUsernames, consent_scope \in ScopeInputsRead :
        LET provider == get_user_by_identifier(
                            db, username_to_lookup_hash(provider_username))
        IN  (/\ provider # 0
             /\ \/ db.users[provider].role # "professional"
                \/ ~Owns(db, cid, patient))
            => share_outcome(db, cid, patient, provider_username,
                             consent_scope).kind = "PermissionError"

WithoutCase(d, cid) ==
    [d EXCEPT !.cases = SubSeq(@, 1, cid - 1),
              !.payloads = {p \in @ : p.case_id # cid},
              !.shares = SelectSeq(@, LAMBDA s : s.case_id # cid),
              !.audit = SelectSeq(@, LAMBDA a : a.case_id # cid)]

\* what the caller of a read or an export gets: a value or an exception
Returned(r) == [kind |-> r.kind, val |-> r.val]

C16_FailedLoginIsLogged ==
    \A username \in RawUsernames, password \in LoginPasswords :
        LET r == authenticate_user(db, username, password) IN
        r.kind = "none" =>
            /\ Len(r.d.audit) = Len(db.audit) + 1
            /\ r.d.audit[Len(r.d.audit)].action = "login_failure"

\* the number of share rows of case cid
SharesOf(d, cid) ==
    Cardinality({i \in DOMAIN d.shares : d.shares[i].case_id = cid})

\* the case as another tool would have left it, in a status the schema allows
WithStatus(d, cid, status) == [d EXCEPT !.cases[cid].status = status]

\* C17: a case row appears with status 'open'; the status of a committed case
\* changes only from 'open' to 'shared', in the commit of a share of that
\* case; a case has status 'shared' exactly when it has a share row; and the
\* status update of a share leaves a 'shared' and a 'closed' case as it is,
\* so that nothing moves a case out of 'closed' or from 'shared' to 'open'.
C17_StatusLifecycle ==
    /\ [][/\ \A cid \in CaseIds(db') \ CaseIds(db) :
                db'.cases[cid].status = "open"
          /\ \A cid \in CaseIds(db) :
                /\ cid \in CaseIds(db')
                /\ \/ db'.cases[cid].status = db.cases[cid].status
                   \/ /\ db.cases[cid].status = "open"
                      /\ db'.cases[cid].status = "shared"
                      /\ call.op = "share_case_with_provider"
                      /\ call.cid = cid
                      /\ SharesOf(db', cid) = SharesOf(db, cid) + 1]_vars
    /\ [](\A cid \in CaseIds(db) :
            /\ db.cases[cid].status = "shared" <=> SharesOf(db, cid) > 0
            /\ db.cases[cid].status = "open" <=> SharesOf(db, cid) = 0
            /\ \A status \in {"shared", "closed"} :
                PromoteStatus(WithStatus(db, cid, status), cid)
                    = WithStatus(db, cid, status))

\* a case already 'shared' has been shared a second time
C17_Witness ==
    \E cid \in CaseIds(db) :
        /\ SharesOf(db, cid) >= 2
        /\ db.cases[cid].status = "shared"

\* C18: in every committed state, every share row is of an existing case,
\* its patient_user_id is the owner of that case and its provider_user_id is
\* a user with role professional.
C18_ShareRowsWellFormed ==
    \A i \in DOMAIN db.shares :
        LET s == db.shares[i] IN
        /\ s.case_id \in CaseIds(db)
        /\ s.patient_user_id = OwnerOf(db, s.case_id)
        /\ s.provider_user_id \in Professionals(db)

\* a patient has shared a case with another user
C18_Witness ==
    \E i \in DOMAIN db.shares :
        /\ db.shares[i].provider_user_id # db.shares[i].patient_user_id
        /\ db.users[db.shares[i].patient_user_id].role = "patient"
        /\ call.op = "idle"

\* C19 as stated: in every committed state, every user row has exactly one
\* credentials row and every credentials row is of a user row.
C19_CredentialsOneToOne ==
    /\ \A u \in UserIds(db) :
        Cardinality({c \in db.creds : c.user_id = u}) = 1
    /\ \A c \in db.creds : c.user_id \in UserIds(db)

\* every case row has exactly one payload row and every payload row a case
\* row, and the stored token is still the encryption of the document that
\* was passed to create_case
CaseAndPayloadTogether(d) ==
    /\ \A cid \in CaseIds(d) :
        /\ Cardinality({p \in d.payloads : p.case_id = cid}) = 1
        /\ cid \in DOMAIN given.doc
        /\ StoredToken(d, cid)
             = encrypt_json(given.doc[cid], StoredKey(d, cid))
    /\ \A p \in d.payloads : p.case_id \in CaseIds(d)

\* C20 as stated: in every committed state, crashes inside create_case
\* included, a case row exists exactly when one payload row exists for it,
\* the payload row is as it was written, and every read by the owner or by a
\* professional with a share row returns the document passed to create_case.
C20_AuthorizedReadReturnsDocument ==
    /\ CaseAndPayloadTogether(db)
    /\ \A cid \in CaseIds(db), req \in Requesters(db),
          key \in get_fernet(procKey, envKey, db) :
        Authorized(db, cid, req) =>
            LET r == get_case_payload(db, cid, req, key) IN
            r.kind = "ok" /\ r.val = given.doc[cid]

\* C20: in every committed state, crashes inside create_case included, a
\* case row exists exactly when one payload row exists for it and the payload
\* row is as it was written; a read by the owner or by a professional with a
\* share row returns the document passed to create_case when the key of the
\* process is the key of the stored token, which it is whenever a key is
\* configured, and raises the decryption failure when it is not; it never
\* returns another document and never None.
C20_CaseAndPayloadAtomic ==
    /\ CaseAndPayloadTogether(db)
    /\ \A cid \in CaseIds(db), req \in Requesters(db),
          key \in get_fernet(procKey, envKey, db) :
        Authorized(db, cid, req) =>
            LET r == get_case_payload(db, cid, req, key) IN
            /\ key = StoredKey(db, cid) =>
                  r.kind = "ok" /\ r.val = given.doc[cid]
            /\ key # StoredKey(db, cid) => r.kind = "InvalidToken"
            /\ envKey # Unset => key = StoredKey(db, cid)

\* the owner has just read the case with the key it was stored under, in a
\* deployment with a configured key
C20_Witness ==
    \E cid \in CaseIds(db) :
        /\ envKey = ConfiguredKey
        /\ procKey = StoredKey(db, cid)
        /\ LastLogged(db, OwnerOf(db, cid), "payload_read", cid)
        /\ call.op = "idle"

\* the actions of the audit rows a call has added to database d, leaving d2
AppendedActions(d, d2) ==
    {d2.audit[i].action : i \in (Len(d.audit) + 1)..Len(d2.audit)}

\* C21 as stated: for every get_case_payload call on an existing case by a
\* user, a payload_read row is appended exactly when the document is
\* returned, and an unauthorized_payload_access row exactly when the call
\* returns None because the user is neither owner nor consented.
C21_AuditMatchesOutcome ==
    \A cid \in CaseIds(db),
       req \in {q \in Requesters(db) : q.id \in UserIds(db)},
       key \in get_fernet(procKey, envKey, db) :
        LET r == get_case_payload(db, cid, req, key) IN
        /\ "payload_read" \in AppendedActions(db, r.d) <=> r.kind = "ok"
        /\ "unauthorized_payload_access" \in AppendedActions(db, r.d)
             <=> (r.kind = "none" /\ ~Authorized(db, cid, req))

\* the share row of case cid for provider uid, if any, with another scope
WithScope(d, cid, uid, scope) ==
    [d EXCEPT !.shares =
        [i \in DOMAIN @ |->
            IF @[i].case_id = cid /\ @[i].provider_user_id = uid
            THEN [@[i] EXCEPT !.consent_scope = scope]
            ELSE @[i]]]

\* C22: for every case and every professional who does not own it,
\* get_case_payload returns the document exactly when a share row for the
\* pair exists, and it returns the same thing and logs the same action
\* whether the scope of that row is 'read', 'comment' or 'full'.
C22_ScopeNotDifferentiated ==
    \A cid \in CaseIds(db), p \in Professionals(db),
       key \in get_fernet(procKey, envKey, db) :
        LET r == get_case_payload(db, cid, Req(db, p), key) IN
        /\ ~Owns(db, cid, p) => (r.kind = "ok" <=> HasShare(db, cid, p))
        /\ \A scope \in ValidScopes :
            LET d2 == WithScope(db, cid, p, scope)
                r2 == get_case_payload(d2, cid, Req(db, p), key)
            IN  /\ r2.kind = r.kind
                /\ r.kind = "ok" => r2.val = r.val
                /\ AppendedActions(d2, r2.d) = AppendedActions(db, r.d)

\* a professional who holds a share of scope 'full' for a case of another
\* user has just read it
C22_Witness ==
    \E i \in DOMAIN db.shares :
        LET s == db.shares[i] IN
        /\ s.consent_scope = "full"
        /\ s.provider_user_id \in Professionals(db)
        /\ ~Owns(db, s.case_id, s.provider_user_id)
        /\ LastLogged(db, s.provider_user_id, "payload_read", s.case_id)

\* the scope passed that is none of 'read', 'comment' and 'full'
InvalidScopes == {"write"}

\* C23 as stated: with a scope outside {read, comment, full}, share_case and
\* share_case_with_provider raise the validation error, whatever the other
\* arguments are, and write nothing.
C23_InvalidScopeAlwaysValueError ==
    \A sc \in InvalidScopes, cid \in 1..(Len(db.cases) + 1),
       patient \in 1..(Len(db.users) + 1) :
        /\ \A provider \in 1..(Len(db.users) + 1) :
            LET r == share_case(db, cid, patient, provider, sc) IN
            r.kind = "ValueError" /\ r.d = db
        /\ \A u \in RawUsernames :
            share_outcome(db, cid, patient, u, sc).kind = "ValueError"

\* C23: with a scope outside {read, comment, full}, share_case raises the
\* validation error whatever the other arguments are and leaves the
\* database as it was; share_case_with_provider never gets as far as
\* writing, and raises the validation error whenever the provider resolves
\* to a professional and the caller owns the case.
C23_InvalidScopeRejected ==
    \A sc \in InvalidScopes, cid \in 1..(Len(db.cases) + 1),
       patient \in 1..(Len(db.users) + 1) :
        /\ \A provider \in 1..(Len(db.users) + 1) :
            LET r == share_case(db, cid, patient, provider, sc) IN
            r.kind = "ValueError" /\ r.d = db
        /\ \A u \in RawUsernames :
            LET out == share_outcome(db, cid, patient, u, sc)
                provider == get_user_by_identifier(
                                db, username_to_lookup_hash(u))
            IN  /\ out.kind # "insert"
                /\ (/\ provider \in Professionals(db)
                    /\ Owns(db, cid, patient))
                   => out.kind = "ValueError"

\* an owner and a professional who has no share of the owner's case yet:
\* but for the scope, a share would go through
C23_Witness ==
    \E cid \in CaseIds(db), p \in Professionals(db), u \in RawUsernames :
        /\ ~Owns(db, cid, p)
        /\ ~HasShare(db, cid, p)
        /\ share_outcome(db, cid, OwnerOf(db, cid), u, "read")
             = Out("insert", p)
        /\ call.op = "idle"

\* C24: the key of a process, once fixed by the first call that needs it, is
\* the key of every later call until the process ends, and a payload is
\* stored under the key of the process that stores it; with no key
\* configured the first call of a new process fixes a key that no stored
\* payload was made with, and from then on, in that process and in every
\* later one, get_case_payload by the owner of a case stored earlier raises
\* the decryption failure.
C24_KeyLifecycle ==
    /\ [][/\ (procKey # NoKey /\ procKey' # procKey) =>
                (procKey' = NoKey /\ call.op = "idle")
          /\ (procKey = NoKey /\ procKey' # NoKey) =>
                IF envKey = Unset
                THEN \A cid \in CaseIds(db) : StoredKey(db, cid) # procKey'
                ELSE procKey' = envKey
          /\ \A cid \in CaseIds(db') \ CaseIds(db) :
                StoredKey(db', cid) = procKey'
          /\ \A cid \in CaseIds(db) :
                (envKey = Unset /\ procKey # StoredKey(db, cid)) =>
                    procKey' # StoredKey(db', cid)]_vars
    /\ [](envKey = Unset =>
            \A cid \in CaseIds(db), key \in get_fernet(procKey, envKey, db) :
                /\ procKey = NoKey => key # StoredKey(db, cid)
                /\ key # StoredKey(db, cid) =>
                    get_case_payload(db, cid, Req(db, OwnerOf(db, cid)),
                                     key).kind = "InvalidToken")

\* with no key configured, the owner's read in a later process than the one
\* that stored the case has just failed
C24_Witness ==
    \E cid \in CaseIds(db) :
        /\ envKey = Unset
        /\ procKey \notin {NoKey, StoredKey(db, cid)}
        /\ LastLogged(db, OwnerOf(db, cid), "payload_read", cid)
        /\ call.op = "idle"

\* C25: in every committed state reached through the Case Service and the
\* Store, db.share_case called on its own included, a case has status
\* 'shared' exactly when it has at least one share row, and 'open' exactly
\* when it has none.
C25_SharedIffShareRow ==
    \A cid \in CaseIds(db) :
        /\ db.cases[cid].status = "shared" <=> SharesOf(db, cid) >= 1
        /\ db.cases[cid].status = "open" <=> SharesOf(db, cid) = 0

\* a case has been shared through the Store alone, with a user who is no
\* professional
C25_Witness ==
    \E i \in DOMAIN db.shares :
        /\ db.users[db.shares[i].provider_user_id].role = "patient"
        /\ db.cases[db.shares[i].case_id].status = "shared"

\* C26: for every share row and every further share_case call for its case
\* and provider, with any valid scope and any patient id, the call raises
\* the integrity error and leaves the database as it was: no case_shared
\* row more, the same case status, the same share rows with their scopes.
C26_DuplicateShareRollsBack ==
    \A i \in DOMAIN db.shares, patient \in UserIds(db), sc \in ValidScopes :
        LET r == share_case(db, db.shares[i].case_id, patient,
                            db.shares[i].provider_user_id, sc)
        IN  /\ r.kind = "IntegrityError"
            /\ r.d.audit = db.audit
            /\ r.d.cases = db.cases
            /\ r.d.shares = db.shares
            /\ r.d = db

\* a case is shared with scope 'read', and a share_case call for the same
\* pair with scope 'full' is refused
C26_Witness ==
    \E i \in DOMAIN db.shares :
        /\ db.shares[i].consent_scope = "read"
        /\ call.op = "idle"
        /\ share_case(db, db.shares[i].case_id, db.shares[i].patient_user_id,
                      db.shares[i].provider_user_id, "full").kind
             = "IntegrityError"

\* C27 as stated: with two register_user calls at a time, no two user rows
\* have the same identifier hash, every user row has one user_created row
\* and at most one credentials row, and a call that returns without having
\* registered its user has raised the "already registered" validation
\* error.
C27_RacingRegisterValueError ==
    /\ \A i, j \in UserIds(db) :
        db.users[i].identifier_hash = db.users[j].identifier_hash => i = j
    /\ \A u \in UserIds(db) :
        /\ CountRows(db.audit, AuditRow(u, "user_created", NoCase)) = 1
        /\ Cardinality({c \in db.creds : c.user_id = u}) <= 1
    /\ \A t \in Threads :
        (call.x[t].op = "register_user" /\ call.x[t].pc = "returned") =>
            call.x[t].res \in {"ok", "ValueError"}

\* the case_shared rows of case cid
CaseSharedRows(d, cid) ==
    Cardinality({i \in DOMAIN d.audit :
        d.audit[i].action = "case_shared" /\ d.audit[i].case_id = cid})

\* C28: with two share_case_with_provider calls at a time, the call whose
\* transaction comes first for a (case, provider) pair succeeds, adding the
\* share row and one case_shared row and leaving the case 'shared', and a
\* call whose transaction finds the row of the pair raises the integrity
\* error and changes nothing; so two calls for the same pair never both
\* succeed, and there is never more than one share row for a pair, nor
\* another number of case_shared rows for a case than of its share rows.
C28_RacingShareOneWins ==
    /\ [][\A t \in Threads :
            ThreadShareCase(t) =>
                LET th == call.x[t] IN
                IF HasShare(db, th.cid, th.uid)
                THEN call'.x[t].res = "IntegrityError" /\ db' = db
                ELSE /\ call'.x[t].res = "ok"
                     /\ ShareCount(db', th.cid, th.uid) = 1
                     /\ CaseSharedRows(db', th.cid)
                          = CaseSharedRows(db, th.cid) + 1
                     /\ db'.cases[th.cid].status = "shared"]_vars
    /\ [](/\ \A cid \in CaseIds(db) :
              /\ \A p \in UserIds(db) : ShareCount(db, cid, p) <= 1
              /\ CaseSharedRows(db, cid) = SharesOf(db, cid)
              /\ SharesOf(db, cid) >= 1 => db.cases[cid].status = "shared"
          /\ \A t1, t2 \in Threads :
              LET a == call.x[t1]
                  b == call.x[t2]
              IN  (/\ t1 # t2
                   /\ a.op = "share_case_with_provider" /\ a.pc = "returned"
                   /\ b.op = "share_case_with_provider" /\ b.pc = "returned"
                   /\ a.cid = b.cid /\ a.uid = b.uid
                   /\ a.res = "ok")
                  => b.res = "IntegrityError")

\* two calls for the same pair have returned, one with the share and one
\* with the integrity error
C28_Witness ==
    \E t1, t2 \in Threads :
        LET a == call.x[t1]
            b == call.x[t2]
        IN  /\ a.op = "share_case_with_provider" /\ a.pc = "returned"
            /\ b.op = "share_case_with_provider" /\ b.pc = "returned"
            /\ a.cid = b.cid /\ a.uid = b.uid
            /\ a.res = "ok" /\ b.res = "IntegrityError"
            /\ ShareCount(db, a.cid, a.uid) = 1

C30_ShareCheckOrder ==
    \A cid \in 1..(Len(db.cases) + 1), patient \in 1..(Len(db.users) + 1),
       u \in RawUsernames, sc \in ScopeInputs :
        LET out == share_outcome(db, cid, patient, u, sc)
            provider == get_user_by_identifier(
                            db, username_to_lookup_hash(u))
        IN  IF provider = 0
            THEN out = Out("none", None)
            ELSE IF provider \notin Professionals(db)
            THEN out = Out("ValueError", "not a professional")
            ELSE IF ~Owns(db, cid, patient)
            THEN out.kind = "PermissionError"
            ELSE IF sc \notin ValidScopes
            THEN out = Out("ValueError", "consent_scope")
            ELSE out.kind \in {"insert", "IntegrityError"}

\* a case and its owner, a username that is nobody's, and a caller who does
\* not own the case: the call returns None for either caller
C30_Witness ==
    \E cid \in CaseIds(db), other \in 1..(Len(db.users) + 1),
       u \in RawUsernames :
        /\ ~Owns(db, cid, other)
        /\ get_user_by_identifier(db, username_to_lookup_hash(u)) = 0
        /\ share_outcome(db, cid, other, u, "write") = Out("none", None)
        /\ share_outcome(db, cid, OwnerOf(db, cid), u, "read")
             = Out("none", None)
        /\ call.op = "idle"

====
